---- MODULE Spec2Model ----
(***************************************************************************)
(* Model of snipping_tool.py: the region-selection overlay                 *)
(* (SnippingWidget), the application shell (MainWindow) and the image      *)
(* preprocessing pipeline (MainWindow.preprocess_image).                   *)
(*                                                                         *)
(* Spec     the event-driven shell: one action per Qt event handler.       *)
(* SpecPre  the pure function preprocess_image over small rasters.         *)
(*                                                                         *)
(* Handlers run to completion one at a time on the GUI thread; the call    *)
(* QApplication.processEvents() in extract_text is taken to find no user   *)
(* input pending.  The screen grab of start_snip is taken to succeed.      *)
(***************************************************************************)
EXTENDS Integers, Sequences, FiniteSets, TLC

VARIABLES
    main_visible,     \* MainWindow is shown (show()/hide())
    captured_image,   \* MainWindow.captured_image
    image_label,      \* pixmap shown by MainWindow.image_label
    text_label,       \* text of MainWindow.text_label (the output text area)
    extracted_text,   \* <<>> while the attribute is absent, else <<text>>
    extract_enabled,  \* MainWindow.extract_btn.isEnabled()
    copy_enabled,     \* MainWindow.copy_btn.isEnabled()
    ocr_combo,        \* MainWindow.ocr_combo.currentText()
    timer_pending,    \* QTimer.singleShot(100, _show_snipping_widget) not yet fired
    snipping_widget,  \* "absent" | "shown" | "closed": the overlay
    begin,            \* SnippingWidget.begin
    end,              \* SnippingWidget.end
    is_selecting,     \* SnippingWidget.is_selecting
    last,             \* what the most recent handler did (observation)
    snip,             \* the running snip: the shell when it started, calls since (observation)
    pre_in,           \* SpecPre: the raster handed to preprocess_image
    pre_out,          \* SpecPre: the raster it returned
    pre_pc            \* SpecPre: "idle" | "ready" | "done"

shell_vars == <<main_visible, captured_image, image_label, text_label,
                extracted_text, extract_enabled, copy_enabled, ocr_combo>>
overlay_vars == <<timer_pending, snipping_widget, begin, end, is_selecting>>
pre_vars == <<pre_in, pre_out, pre_pc>>
vars == <<shell_vars, overlay_vars, last, snip, pre_vars>>

----------------------------------------------------------------------------
(* Bounds of the model *)

NumImages == 2    \* distinct picture contents the environment can deliver
MaxW == 3         \* SpecPre: largest raster width
MaxH == 3         \* SpecPre: largest raster height

(* Program constants *)

SizeLimit == 10   \* mouseReleaseEvent: width and height must exceed it

----------------------------------------------------------------------------
(* Texts *)

MsgInitial == "Extracted text will appear here"
MsgCaptured == "Image captured! Click 'Extract Text' to process."
MsgPasted == "Image pasted from clipboard! Click 'Extract Text' to process."
MsgLoaded == "Image loaded from file! Click 'Extract Text' to process."
MsgProcessing == "Processing... Please wait."
MsgNoText == "No text detected in image"
MsgEasyOCRMissing == "EasyOCR not installed. Please install with: pip install easyocr"
MsgCloud == "Cloud API not implemented in this demo"
MsgCopied == "Text copied to clipboard!"
MsgNoValidImage == "No valid image found in clipboard"
MsgNoClipboardImage ==
    "Clipboard does not contain an image.\n\nTry:\n1. Taking a screenshot (PrtScn)\n"
    \o "2. Copying an image from a browser\n3. Copying an image file"

OcrItems == <<"Tesseract (Fast)", "EasyOCR (Accurate - Not Installed)",
              "Cloud API (Premium - Not Implemented)">>
Engines == {OcrItems[i] : i \in 1..3}

(* `key in engine` over the combo box's items: engine = pre + key + post *)
ItemAffixes == {"", " (Fast)", " (Accurate - Not Installed)",
                " API (Premium - Not Implemented)"}
Contains(engine, key) ==
    \E a \in ItemAffixes, b \in ItemAffixes : engine = a \o key \o b

(* str.strip(): the text without its leading and trailing whitespace *)
WhitespaceRuns == {"", " ", "\n"}
StripCores == {"", "HELLO", "WORLD", MsgEasyOCRMissing, MsgCloud}
strip(t) ==
    CHOOSE c \in StripCores :
        \E a \in WhitespaceRuns, b \in WhitespaceRuns : t = a \o c \o b

(* What an OCR backend can return, and how a collaborator can fail *)
OcrTexts == {"HELLO\n", "WORLD", " ", ""}
NoError == ""
ErrTruncated == "image file is truncated"
ErrCannotWrite == "cannot write mode CMYK as PNG"
ErrNoFile == "No such file or directory"
ErrTesseract == "tesseract is not installed or it's not in your PATH"
ErrEasyOCR == "easyocr reader failed"

NoNotice == <<>>
Notice(title, text) == <<title, text>>

----------------------------------------------------------------------------
(* Images.  decode says what PIL does with the picture's data:             *)
(*   "ok"     it decodes and saves as PNG                                  *)
(*   "nosave" it decodes, but image.save(format='PNG') raises              *)
(*   "trunc"  Image.open reads the header, every later load raises         *)

None == [id |-> 0, decode |-> "none"]
GoodImages == [id : 1..NumImages, decode : {"ok"}]
FileImages == [id : {1}, decode : {"ok", "nosave", "trunc"}]

(* Exception of image.save(buffer, 'PNG') in process_capture, if any *)
SaveError(image) ==
    CASE image.decode = "nosave" -> ErrCannotWrite
      [] image.decode = "trunc" -> ErrTruncated
      [] OTHER -> NoError

(* Exception of preprocess_image(image) (its first load of the data), if any *)
PreprocessError(image) ==
    IF image.decode = "trunc" THEN ErrTruncated ELSE NoError

(* Clipboard contents as paste_from_clipboard reads them *)
NoFile == [opens |-> FALSE, image |-> None]
Files == {NoFile} \cup [opens : {TRUE}, image : FileImages]
ClipboardContents ==
    [hasImage : {FALSE}, image : {None}, hasUrls : {FALSE}, urls : {<<>>}]
    \cup [hasImage : {TRUE}, image : {None} \cup GoodImages,
          hasUrls : {FALSE}, urls : {<<>>}]
    \cup [hasImage : {FALSE}, image : {None}, hasUrls : {TRUE},
          urls : {<<>>} \cup {<<f>> : f \in Files}]

----------------------------------------------------------------------------
(* The shell as a record, so that handlers compose *)

Shell ==
    [main_visible |-> main_visible, captured_image |-> captured_image,
     image_label |-> image_label, text_label |-> text_label,
     extracted_text |-> extracted_text, extract_enabled |-> extract_enabled,
     copy_enabled |-> copy_enabled, ocr_combo |-> ocr_combo]

SetShell(s) ==
    /\ main_visible' = s.main_visible
    /\ captured_image' = s.captured_image
    /\ image_label' = s.image_label
    /\ text_label' = s.text_label
    /\ extracted_text' = s.extracted_text
    /\ extract_enabled' = s.extract_enabled
    /\ copy_enabled' = s.copy_enabled
    /\ ocr_combo' = s.ocr_combo

(* MainWindow.__init__ / init_ui *)
ShellInit ==
    /\ main_visible = TRUE
    /\ captured_image = None
    /\ image_label = None
    /\ text_label = MsgInitial
    /\ extracted_text = <<>>
    /\ extract_enabled = FALSE
    /\ copy_enabled = FALSE
    /\ ocr_combo = OcrItems[1]

(* The fields of the shell a handler changed, from s to t *)
Changed(s, t) == {f \in DOMAIN s : s[f] # t[f]}

(* The record of a handler that took the shell to t *)
Did(op, input, t, notice, calls, raised) ==
    [op |-> op, input |-> input, notice |-> notice, calls |-> calls,
     raised |-> raised, changed |-> Changed(Shell, t)]

NoInput == [kind |-> "none"]

----------------------------------------------------------------------------
(* MainWindow *)

(* process_capture(image): [state, raised] *)
process_capture(s, image) ==
    LET s1 == [s EXCEPT !.main_visible = TRUE, !.captured_image = image]
    IN  IF SaveError(image) # NoError
        THEN [state |-> s1, raised |-> SaveError(image)]
        ELSE [state |-> [s1 EXCEPT !.image_label = image,
                                   !.extract_enabled = TRUE,
                                   !.text_label = MsgCaptured],
              raised |-> NoError]

(* What the backends can do when called *)
TextOutcomes == [kind : {"text"}, text : OcrTexts]
TesseractOutcomes == TextOutcomes \cup {[kind |-> "raise", text |-> ErrTesseract]}
EasyOCROutcomes ==
    TextOutcomes \cup {[kind |-> "raise", text |-> ErrEasyOCR],
                       [kind |-> "import_error", text |-> ""]}
CloudOutcomes == {[kind |-> "unused", text |-> ""]}
OutcomesFor(engine) ==
    IF Contains(engine, "Tesseract") THEN TesseractOutcomes
    ELSE IF Contains(engine, "EasyOCR") THEN EasyOCROutcomes
    ELSE CloudOutcomes

(* Variant: the ImportError is not caught inside and reaches the except clause *)
easyocr_branch_raising(outcome) ==
    IF outcome.kind = "text"
    THEN [text |-> outcome.text, raised |-> NoError,
          calls |-> {"import easyocr", "easyocr.readtext"}]
    ELSE [text |-> "", raised |-> "No module named 'easyocr'",
          calls |-> {"import easyocr"}]

(* extract_text, the EasyOCR branch: [text, raised, calls] *)
easyocr_branch(outcome) ==
    CASE outcome.kind = "import_error" ->
            [text |-> MsgEasyOCRMissing, raised |-> NoError, calls |-> {"import easyocr"}]
      [] outcome.kind = "raise" ->
            [text |-> "", raised |-> outcome.text,
             calls |-> {"import easyocr", "easyocr.readtext"}]
      [] OTHER ->
            [text |-> outcome.text, raised |-> NoError,
             calls |-> {"import easyocr", "easyocr.readtext"}]

(* extract_text, the engine dispatch: [text, raised, calls] *)
run_engine(engine, outcome) ==
    IF Contains(engine, "Tesseract")
    THEN IF outcome.kind = "raise"
         THEN [text |-> "", raised |-> outcome.text, calls |-> {"pytesseract"}]
         ELSE [text |-> outcome.text, raised |-> NoError, calls |-> {"pytesseract"}]
    ELSE IF Contains(engine, "EasyOCR")
         THEN easyocr_branch(outcome)
         ELSE [text |-> MsgCloud, raised |-> NoError, calls |-> {}]

(* Variant: the copy button is enabled whatever the text is *)
store_result_enabling(s, text) ==
    IF strip(text) # ""
    THEN [s EXCEPT !.text_label = text, !.extracted_text = <<text>>,
                   !.copy_enabled = TRUE]
    ELSE [s EXCEPT !.text_label = MsgNoText, !.copy_enabled = TRUE]

(* Variant: the stripped text is stored, the raw text is shown *)
store_result_stripped(s, text) ==
    IF strip(text) # ""
    THEN [s EXCEPT !.text_label = text, !.extracted_text = <<strip(text)>>,
                   !.copy_enabled = TRUE]
    ELSE [s EXCEPT !.text_label = MsgNoText, !.copy_enabled = FALSE]

(* extract_text, after the engine returned text *)
store_result(s, text) ==
    IF strip(text) # ""
    THEN [s EXCEPT !.text_label = text, !.extracted_text = <<text>>,
                   !.copy_enabled = TRUE]
    ELSE [s EXCEPT !.text_label = MsgNoText, !.copy_enabled = FALSE]

(* extract_text, the except clause: [state, notice, calls, raised] *)
report_error(s, e, calls) ==
    [state |-> [s EXCEPT !.text_label = "Error during OCR: " \o e],
     notice |-> Notice("OCR Error", "Failed to extract text: " \o e),
     calls |-> calls, raised |-> e]

(* extract_text(): [state, notice, calls, raised] *)
extract_text(s, outcome) ==
    IF s.captured_image = None
    THEN [state |-> s, notice |-> NoNotice, calls |-> {}, raised |-> NoError]
    ELSE LET s1 == [s EXCEPT !.text_label = MsgProcessing]
             perr == PreprocessError(s.captured_image)
             r == run_engine(s.ocr_combo, outcome)
             calls == {"preprocess_image"} \cup r.calls
         IN  IF perr # NoError THEN report_error(s1, perr, {"preprocess_image"})
             ELSE IF r.raised # NoError THEN report_error(s1, r.raised, calls)
             ELSE [state |-> store_result(s1, r.text), notice |-> NoNotice,
                   calls |-> calls, raised |-> NoError]

(* paste_from_clipboard, the file-URL branch: [state, notice, calls, raised] *)
paste_file(s, f) ==
    IF ~f.opens
    THEN [state |-> s,
          notice |-> Notice("Error", "Could not open image file: " \o ErrNoFile),
          calls |-> {"Image.open"}, raised |-> ErrNoFile]
    ELSE LET r == process_capture(s, f.image)
         IN  IF r.raised # NoError
             THEN [state |-> r.state,
                   notice |-> Notice("Error", "Could not open image file: " \o r.raised),
                   calls |-> {"Image.open", "process_capture"}, raised |-> r.raised]
             ELSE [state |-> [r.state EXCEPT !.text_label = MsgLoaded],
                   notice |-> NoNotice,
                   calls |-> {"Image.open", "process_capture"}, raised |-> NoError]

(* paste_from_clipboard(): [state, notice, calls, raised] *)
paste_from_clipboard(s, clip) ==
    IF clip.hasImage
    THEN IF clip.image = None
         THEN [state |-> s, notice |-> Notice("No Image", MsgNoValidImage),
               calls |-> {}, raised |-> NoError]
         ELSE LET r == process_capture(s, clip.image)
              IN  [state |-> IF r.raised # NoError THEN r.state
                             ELSE [r.state EXCEPT !.text_label = MsgPasted],
                   notice |-> NoNotice, calls |-> {"process_capture"},
                   raised |-> r.raised]
    ELSE IF clip.hasUrls
         THEN IF clip.urls # <<>>
              THEN paste_file(s, clip.urls[1])
              ELSE [state |-> s, notice |-> NoNotice, calls |-> {},
                    raised |-> NoError]
         ELSE [state |-> s, notice |-> Notice("No Image", MsgNoClipboardImage),
               calls |-> {}, raised |-> NoError]

(* copy_to_clipboard(): [notice, calls] *)
copy_to_clipboard(s) ==
    IF s.extracted_text # <<>>
    THEN [notice |-> Notice("Success", MsgCopied), calls |-> {"pyperclip.copy"},
          written |-> s.extracted_text]
    ELSE [notice |-> NoNotice, calls |-> {}, written |-> <<>>]

----------------------------------------------------------------------------
(* MainWindow.preprocess_image over rasters: [w, h, px], px row by row *)

(* Colours of the input pixels <<R, G, B>>: a light grey and a dark brown *)
Palette == {<<200, 200, 200>>, <<100, 50, 20>>}
Rasters ==
    UNION {[w : {w}, h : {h}, px : [1..(w * h) -> Palette]] :
           <<w, h>> \in (1..MaxW) \X (1..MaxH)}
NoRaster == [w |-> 0, h |-> 0, px |-> <<>>]

RECURSIVE SumTo(_, _)
SumTo(px, n) == IF n = 0 THEN 0 ELSE px[n] + SumTo(px, n - 1)
Sum(px) == SumTo(px, Len(px))

(* The pixel array of n values f[1..n], built once *)
Array(f, n) == SubSeq(f, 1, n)

(* Clipping of a value to a byte, as PIL does for "L" images *)
clip8(v) == IF v <= 0 THEN 0 ELSE IF v >= 255 THEN 255 ELSE v

(* image.convert('L'): ITU-R 601-2 luma in 16-bit fixed point *)
convert_L(img) ==
    [img EXCEPT !.px = Array([i \in 1..Len(img.px) |->
        (img.px[i][1] * 19595 + img.px[i][2] * 38470 + img.px[i][3] * 7471
         + 32768) \div 65536], Len(img.px))]

(* ImageEnhance.Contrast(gray).enhance(2.0): blend of the image with the    *)
(* flat image of its rounded mean, factor 2: mean + 2 * (v - mean), clipped *)
enhance_contrast(img) ==
    LET n == Len(img.px)
        mean == (2 * Sum(img.px) + n) \div (2 * n)
    IN  [img EXCEPT !.px = Array([i \in 1..n |-> clip8(2 * img.px[i] - mean)], n)]

(* enhanced.filter(ImageFilter.SHARPEN): the 3x3 kernel                     *)
(* (-2 -2 -2 / -2 32 -2 / -2 -2 -2) / 16 on interior pixels, rounded and    *)
(* clipped; border pixels, and images smaller than the kernel, are copied   *)
sharpen(img) ==
    LET w == img.w
        h == img.h
        at(x, y) == img.px[y * w + x + 1]
        around(x, y) ==
            at(x - 1, y - 1) + at(x, y - 1) + at(x + 1, y - 1)
            + at(x - 1, y) + at(x + 1, y)
            + at(x - 1, y + 1) + at(x, y + 1) + at(x + 1, y + 1)
        filtered(x, y) ==
            LET v == 16 * at(x, y) - around(x, y) + 4
            IN  IF v <= 0 THEN 0 ELSE IF v >= 2040 THEN 255 ELSE v \div 8
    IN  IF w < 3 \/ h < 3 THEN img
        ELSE [img EXCEPT !.px = Array([i \in 1..(w * h) |->
                LET x == (i - 1) % w
                    y == (i - 1) \div w
                IN  IF x = 0 \/ x = w - 1 \/ y = 0 \/ y = h - 1
                    THEN img.px[i] ELSE filtered(x, y)], w * h)]

(* np.mean(img_array), kept exact as the fraction num / den *)
np_mean(px) == [num |-> Sum(px), den |-> Len(px)]

(* Variant: a pixel equal to the mean counts as above it *)
above_or_equal_threshold(v, threshold) == v * threshold.den >= threshold.num

(* img_array > threshold, for one pixel *)
above_threshold(v, threshold) == v * threshold.den > threshold.num

(* (img_array > threshold) * 255, as uint8 *)
binarize(img) ==
    LET threshold == np_mean(img.px)
    IN  [img EXCEPT !.px = Array([i \in 1..Len(img.px) |->
            IF above_threshold(img.px[i], threshold) THEN 255 ELSE 0],
            Len(img.px))]

sharpened_image(image) == sharpen(enhance_contrast(convert_L(image)))
preprocess_image(image) == binarize(sharpened_image(image))

----------------------------------------------------------------------------
(* SnippingWidget *)

(* Pointer positions on the overlay: the origin and both sides of the size  *)
(* limit; the button goes down in a corner of that square                   *)
PointerCoords == {0, SizeLimit - 1, SizeLimit}
Points == [x : PointerCoords, y : PointerCoords]
PressPoints == [x : {0, SizeLimit}, y : {0, SizeLimit}]
QPoint == [x |-> 0, y |-> 0]

(* QRect(topLeft, bottomRight), normalized(), width(), height() *)
QRect(p, q) == [x1 |-> p.x, y1 |-> p.y, x2 |-> q.x, y2 |-> q.y]
normalized(r) ==
    [x1 |-> IF r.x2 < r.x1 - 1 THEN r.x2 ELSE r.x1,
     x2 |-> IF r.x2 < r.x1 - 1 THEN r.x1 ELSE r.x2,
     y1 |-> IF r.y2 < r.y1 - 1 THEN r.y2 ELSE r.y1,
     y2 |-> IF r.y2 < r.y1 - 1 THEN r.y1 ELSE r.y2]
width(r) == r.x2 - r.x1 + 1
height(r) == r.y2 - r.y1 + 1

(* Variant: one side above the limit is enough *)
selection_accepted_either(rect) ==
    width(rect) > SizeLimit \/ height(rect) > SizeLimit

(* mouseReleaseEvent: the selection is large enough to capture *)
selection_accepted(rect) == width(rect) > SizeLimit /\ height(rect) > SizeLimit

(* capture_region(rect): the screenshot was grabbed and the parent is the    *)
(* main window, so the crop goes to process_capture: [state, calls, raised]  *)
capture_region(s, cropped) ==
    LET r == process_capture(s, cropped)
    IN  [state |-> r.state, calls |-> {"process_capture"}, raised |-> r.raised]

(* What a discarded or cancelled snip is compared with *)
Snapshot(s) ==
    [captured_image |-> s.captured_image, extracted_text |-> s.extracted_text,
     extract_enabled |-> s.extract_enabled, copy_enabled |-> s.copy_enabled]
NoSnip == [before |-> Snapshot([captured_image |-> None, extracted_text |-> <<>>,
                                extract_enabled |-> FALSE, copy_enabled |-> FALSE]),
           calls |-> {}]

----------------------------------------------------------------------------
(* Initial state: after MainWindow() and window.show() *)

PreIdle ==
    /\ pre_in = NoRaster
    /\ pre_out = NoRaster
    /\ pre_pc = "idle"

AppInit ==
    /\ ShellInit
    /\ timer_pending = FALSE
    /\ snipping_widget = "absent"
    /\ begin = QPoint
    /\ end = QPoint
    /\ is_selecting = FALSE
    /\ last = Did("init", NoInput, Shell, NoNotice, {}, NoError)
    /\ snip = NoSnip

Init == AppInit /\ PreIdle

----------------------------------------------------------------------------
(* Actions: one per event handler.  A closed overlay is never used again    *)
(* (_show_snipping_widget makes a new one), so closing it drops its points. *)

(* The user picks an item of ocr_combo *)
SelectEngine ==
    /\ main_visible
    /\ \E e \in Engines : ocr_combo' = e
    /\ UNCHANGED <<main_visible, captured_image, image_label, text_label,
                   extracted_text, extract_enabled, copy_enabled>>
    /\ UNCHANGED <<overlay_vars, last, snip, pre_vars>>

(* snip_btn.clicked / Ctrl+Shift+S -> start_snipping *)
StartSnipping ==
    /\ main_visible
    /\ SetShell([Shell EXCEPT !.main_visible = FALSE])
    /\ timer_pending' = TRUE
    /\ snip' = [before |-> Snapshot(Shell), calls |-> {}]
    /\ last' = Did("start_snipping", NoInput, [Shell EXCEPT !.main_visible = FALSE], NoNotice, {}, NoError)
    /\ UNCHANGED <<snipping_widget, begin, end, is_selecting, pre_vars>>

(* the timer fires -> _show_snipping_widget: a new SnippingWidget, start_snip *)
ShowSnippingWidget ==
    /\ timer_pending
    /\ timer_pending' = FALSE
    /\ snipping_widget' = "shown"
    /\ begin' = QPoint
    /\ end' = QPoint
    /\ is_selecting' = FALSE
    /\ last' = Did("_show_snipping_widget", NoInput, Shell, NoNotice, {}, NoError)
    /\ UNCHANGED <<shell_vars, snip, pre_vars>>

MousePressEvent ==
    /\ snipping_widget = "shown"
    /\ ~is_selecting
    /\ \E p \in PressPoints :
        /\ begin' = p
        /\ end' = p
    /\ is_selecting' = TRUE
    /\ last' = Did("mousePressEvent", NoInput, Shell, NoNotice, {}, NoError)
    /\ UNCHANGED <<shell_vars, timer_pending, snipping_widget, snip, pre_vars>>

MouseMoveEvent ==
    /\ snipping_widget = "shown"
    /\ \E p \in Points : end' = IF is_selecting THEN p ELSE end
    /\ last' = Did("mouseMoveEvent", NoInput, Shell, NoNotice, {}, NoError)
    /\ UNCHANGED <<shell_vars, timer_pending, snipping_widget, begin,
                   is_selecting, snip, pre_vars>>

MouseReleaseEvent ==
    /\ snipping_widget = "shown"
    /\ is_selecting
    /\ \E cropped \in GoodImages :
        LET rect == normalized(QRect(begin, end))
            r == IF selection_accepted(rect)
                 THEN capture_region(Shell, cropped)
                 ELSE [state |-> Shell, calls |-> {}, raised |-> NoError]
        IN  /\ SetShell(r.state)
            /\ last' = Did("mouseReleaseEvent",
                           [kind |-> "rect", w |-> width(rect), h |-> height(rect)],
                           r.state, NoNotice, r.calls, r.raised)
            /\ snip' = IF "process_capture" \in r.calls
                       THEN NoSnip ELSE [snip EXCEPT !.calls = @ \cup r.calls]
    /\ is_selecting' = FALSE
    /\ snipping_widget' = "closed"
    /\ begin' = QPoint
    /\ end' = QPoint
    /\ UNCHANGED <<timer_pending, pre_vars>>

KeyPressEvent ==
    /\ snipping_widget = "shown"
    /\ \E key \in {"Key_Escape", "Key_Other"} :
        /\ is_selecting' = IF key = "Key_Escape" THEN FALSE ELSE is_selecting
        /\ snipping_widget' = IF key = "Key_Escape" THEN "closed" ELSE "shown"
        /\ begin' = IF key = "Key_Escape" THEN QPoint ELSE begin
        /\ end' = IF key = "Key_Escape" THEN QPoint ELSE end
        /\ last' = Did("keyPressEvent", [kind |-> key], Shell, NoNotice, {}, NoError)
    /\ UNCHANGED <<shell_vars, timer_pending, snip, pre_vars>>

(* extract_btn.clicked -> extract_text *)
ExtractText ==
    /\ main_visible
    /\ extract_enabled
    /\ \E outcome \in OutcomesFor(ocr_combo) :
        LET r == extract_text(Shell, outcome)
        IN  /\ SetShell(r.state)
            /\ last' = Did("extract_text", [engine |-> ocr_combo, outcome |-> outcome], r.state, r.notice, r.calls, r.raised)
    /\ UNCHANGED <<overlay_vars, snip, pre_vars>>

(* copy_btn.clicked -> copy_to_clipboard *)
CopyToClipboard ==
    /\ main_visible
    /\ copy_enabled
    /\ LET r == copy_to_clipboard(Shell)
       IN  last' = Did("copy_to_clipboard", [kind |-> "written", text |-> r.written],
                       Shell, r.notice, r.calls, NoError)
    /\ UNCHANGED <<shell_vars, overlay_vars, snip, pre_vars>>

(* paste_btn.clicked / Ctrl+V -> paste_from_clipboard *)
PasteFromClipboard ==
    /\ main_visible
    /\ \E clip \in ClipboardContents :
        LET r == paste_from_clipboard(Shell, clip)
        IN  /\ SetShell(r.state)
            /\ last' = Did("paste_from_clipboard", clip, r.state, r.notice, r.calls, r.raised)
    /\ UNCHANGED <<overlay_vars, snip, pre_vars>>

Next ==
    \/ SelectEngine
    \/ StartSnipping
    \/ ShowSnippingWidget
    \/ MousePressEvent
    \/ MouseMoveEvent
    \/ MouseReleaseEvent
    \/ KeyPressEvent
    \/ ExtractText
    \/ CopyToClipboard
    \/ PasteFromClipboard

Spec == Init /\ [][Next]_vars

----------------------------------------------------------------------------
(* SpecPre: preprocess_image applied to every small raster *)

InitPre ==
    /\ AppInit
    /\ pre_in \in Rasters
    /\ pre_out = NoRaster
    /\ pre_pc = "ready"

Preprocess ==
    /\ pre_pc = "ready"
    /\ pre_out' = preprocess_image(pre_in)
    /\ pre_pc' = "done"
    /\ UNCHANGED <<pre_in, shell_vars, overlay_vars, last, snip>>

NextPre == Preprocess

SpecPre == InitPre /\ [][NextPre]_vars

----------------------------------------------------------------------------
(* Properties *)

StateFields == {"captured_image", "extracted_text", "extract_enabled", "copy_enabled"}
BackendCalls == {"pytesseract", "import easyocr", "easyocr.readtext"}
StatusLabels == {MsgCaptured, MsgPasted, MsgLoaded}
ErrorLabels ==
    {"Error during OCR: " \o e : e \in {ErrTruncated, ErrTesseract, ErrEasyOCR}}
Idle == main_visible /\ ~timer_pending /\ snipping_widget # "shown"

SnipDiscarded ==
    /\ last.op = "mouseReleaseEvent"
    /\ (last.input.w <= 10 \/ last.input.h <= 10)
SnipCancelled ==
    /\ last.op = "keyPressEvent"
    /\ last.input.kind = "Key_Escape"

(* C1: a snip whose selection is released with width <= 10 or height <= 10, *)
(* or that is cancelled with Escape, delivers no image (process_capture is  *)
(* not called), invokes neither the preprocessor nor an OCR backend, and    *)
(* leaves the current image, the extracted text and the enabled state of    *)
(* the extract and copy actions as they were when the snip was started.     *)
C1_DiscardedSnipHasNoEffect ==
    (SnipDiscarded \/ SnipCancelled) =>
        /\ last.calls = {}
        /\ snip.calls = {}
        /\ last.changed = {}
        /\ Snapshot(Shell) = snip.before

(* C1 happens: a selection exactly 10 wide and more than 10 high is        *)
(* discarded while an image and an extracted text exist                     *)
C1_Witness ==
    /\ SnipDiscarded
    /\ last.input.w = 10
    /\ last.input.h > 10
    /\ captured_image # None
    /\ copy_enabled

ExtractFailed ==
    /\ last.op = "extract_text"
    /\ \/ last.raised # NoError
       \/ /\ "import easyocr" \in last.calls
          /\ last.input.outcome.kind = "import_error"

(* C2: a failed extraction (backend unavailable, or an exception from       *)
(* preprocessing or the backend) leaves the extracted text and the current  *)
(* image as they were, and the copy action enabled when a text exists.      *)
C2_FailedExtractionKeepsText ==
    ExtractFailed =>
        /\ "extracted_text" \notin last.changed
        /\ "captured_image" \notin last.changed
        /\ (extracted_text # <<>> => copy_enabled)

(* C3: once the selection has ended (accepted, discarded or cancelled) and  *)
(* no new snip is on its way, the overlay is closed and the main window is  *)
(* shown again.                                                             *)
C3_SnipReturnsToIdle ==
    (snipping_widget = "closed" /\ ~timer_pending) => main_visible

NoImageNoUrl(clip) ==
    /\ clip.hasImage => clip.image = None
    /\ clip.urls = <<>>

(* C4: a paste with neither a valid image nor a file URL on the clipboard   *)
(* shows a blocking notice and leaves the current image, the extracted      *)
(* text, the output text and the extract and copy actions unchanged.        *)
C4_PasteWithoutImageNotifies ==
    (last.op = "paste_from_clipboard" /\ NoImageNoUrl(last.input)) =>
        /\ last.notice # NoNotice
        /\ last.changed \cap (StateFields \cup {"text_label"}) = {}

(* C5: a paste from a file URL that fails while opening, decoding or        *)
(* displaying the file shows a blocking notice and leaves the current       *)
(* image and the extract action as they were.                               *)
C5_FailedFilePasteKeepsImage ==
    (/\ last.op = "paste_from_clipboard"
     /\ ~last.input.hasImage
     /\ last.input.urls # <<>>
     /\ last.raised # NoError) =>
        /\ last.notice # NoNotice
        /\ "captured_image" \notin last.changed
        /\ "extract_enabled" \notin last.changed

(* C6 as stated: the copy action is enabled if and only if an extracted     *)
(* text has been stored.                                                    *)
C6_CopyEnabledIffText == copy_enabled <=> extracted_text # <<>>

(* C6: the copy action is enabled only if an extracted text has been        *)
(* stored.                                                                  *)
C6_CopyEnabledOnlyWithText == copy_enabled => extracted_text # <<>>

(* C6 happens: an extraction has stored a text and enabled the copy action *)
C6_Witness ==
    /\ last.op = "extract_text"
    /\ "copy_enabled" \in last.changed
    /\ copy_enabled

(* C8: extract_text with the Cloud API engine selected always yields the    *)
(* fixed "not implemented" message and calls no OCR backend.                *)
C8_CloudIsFixedMessage ==
    (last.op = "extract_text" /\ Contains(last.input.engine, "Cloud")) =>
        /\ text_label = MsgCloud
        /\ extracted_text = <<MsgCloud>>
        /\ last.calls \cap BackendCalls = {}

(* C9: in extract_text an unavailable backend (import of EasyOCR fails) is  *)
(* reported in the output text area only, any other failure both in the     *)
(* output text area and by a blocking notice carrying the error's           *)
(* description; either way the handler returns and the shell is idle again. *)
C9_ErrorsAreReported ==
    last.op = "extract_text" =>
        /\ ("import easyocr" \in last.calls
            /\ last.input.outcome.kind = "import_error") =>
                /\ last.raised = NoError
                /\ last.notice = NoNotice
                /\ text_label = MsgEasyOCRMissing
        /\ last.raised # NoError =>
                /\ text_label = "Error during OCR: " \o last.raised
                /\ last.notice =
                       <<"OCR Error", "Failed to extract text: " \o last.raised>>
        /\ (last.raised = NoError /\ last.input.outcome.kind # "import_error") =>
                last.notice = NoNotice
        /\ Idle

(* C9 happens: a backend raised and the error is on screen *)
C9_Witness ==
    /\ last.op = "extract_text"
    /\ last.raised = ErrTesseract
    /\ last.notice # NoNotice

C7_PreprocessBinarizesAboveMean ==
    pre_pc = "done" =>
        LET sharp == sharpened_image(pre_in).px
            n == pre_in.w * pre_in.h
            total == Sum(sharp)
        IN  /\ pre_out.w = pre_in.w
            /\ pre_out.h = pre_in.h
            /\ Len(pre_out.px) = n
            /\ \A i \in 1..n :
                /\ pre_out.px[i] \in {0, 255}
                /\ pre_out.px[i] = 255 <=> n * sharp[i] > total
                /\ n * sharp[i] = total => pre_out.px[i] = 0

(* C7 happens: a raster with an interior pixel that sharpening changed      *)
(* comes out with both levels                                               *)
C7_Witness ==
    /\ pre_pc = "done"
    /\ pre_in.w >= 3
    /\ pre_in.h >= 3
    /\ sharpened_image(pre_in) # enhance_contrast(convert_L(pre_in))
    /\ \E i, j \in 1..Len(pre_out.px) : pre_out.px[i] = 0 /\ pre_out.px[j] = 255

====
